---- MODULE Spec2Model ----
(***************************************************************************)
(* Model of src/streamlit.py: the file-based history store (load_history,  *)
(* save_history, get_session_ids, delete_sessions) and the Streamlit       *)
(* script that drives it, one script run per user interaction.             *)
(*                                                                         *)
(* Two specifications share the variables:                                 *)
(*   StoreSpec  calls the four store functions directly, with any          *)
(*              arguments, on a directory that may hold files written by   *)
(*              earlier versions or damaged files;                         *)
(*   Spec       is the page: every action is one complete top-to-bottom    *)
(*              run of the script, triggered by one widget.                *)
(***************************************************************************)
EXTENDS Integers, Sequences, FiniteSets, TLC

\* ---------------------------------------------------------------- bounds

\* Longest transcript the chat handler is allowed to produce in the model.
MaxTurns == 3
\* Longest sequence handed to save_history by a direct call (StoreSpec).
MaxSaveLen == 2

\* ------------------------------------------------------------ data model

\* Session ids (file stems) and the texts that occur in turns.
SessionIds == {"s1", "s2"}
Prompts == {"hi"}
Responses == {"hello"}

\* An in-memory message is a Python dict: a function from keys to texts.
user(p) == [role |-> "user", content |-> p]
assistant(r) == [role |-> "assistant", content |-> r]

\* json.dump writes a dict as its members in insertion order; the dicts the
\* script builds are {"role": .., "content": ..}, and dicts read from a file
\* are written back with their keys in this order.
KeyOrder == <<"role", "content", "query", "response">>

RECURSIVE dump_members(_, _)
dump_members(d, i) ==
    IF i > Len(KeyOrder) THEN <<>>
    ELSE (IF KeyOrder[i] \in DOMAIN d
            THEN << <<KeyOrder[i], d[KeyOrder[i]]>> >>
            ELSE <<>>) \o dump_members(d, i + 1)

\* json.dump(history, f, indent=2): the text of a list of objects, each
\* object the sequence of its <<key, value>> members.
json_dump(history) ==
    [kind |-> "list",
     objs |-> [i \in 1..Len(history) |-> dump_members(history[i], 1)]]

\* The value json.load gives a JSON object: a dict, the last member winning
\* for a repeated key.
parse_object(members) ==
    [k \in {members[i][1] : i \in 1..Len(members)} |->
        LET last == CHOOSE i \in 1..Len(members) :
                      /\ members[i][1] = k
                      /\ \A j \in (i+1)..Len(members) : members[j][1] # k
        IN members[last][2]]

\* What a file of HISTORY_DIR can hold.  kind:
\*   "absent"       no such file
\*   "list"         the JSON text of a list of objects (objs)
\*   "null"         the JSON text null
\*   "malformed"    decodable text that is not JSON
\*   "undecodable"  bytes that are not text in the locale's encoding
NoFile == [kind |-> "absent", objs |-> <<>>]
NullFile == [kind |-> "null", objs |-> <<>>]
MalformedFile == [kind |-> "malformed", objs |-> <<>>]
UndecodableFile == [kind |-> "undecodable", objs |-> <<>>]

\* open(session_file, "r") followed by json.load(f): the exception raised,
\* if any, and the value read.  io_fail is the operating system refusing
\* the read.
json_load(file, io_fail) ==
    IF io_fail THEN [exc |-> "IOError", type |-> "none", items |-> <<>>]
    ELSE IF file.kind = "undecodable"
        THEN [exc |-> "UnicodeDecodeError", type |-> "none", items |-> <<>>]
    ELSE IF file.kind = "malformed"
        THEN [exc |-> "JSONDecodeError", type |-> "none", items |-> <<>>]
    ELSE IF file.kind = "null"
        THEN [exc |-> "none", type |-> "null", items |-> <<>>]
    ELSE [exc |-> "none", type |-> "list",
          items |-> [i \in 1..Len(file.objs) |-> parse_object(file.objs[i])]]

\* except (json.JSONDecodeError, IOError)
Caught == {"JSONDecodeError", "IOError"}

\* Python truthiness of a value read from JSON.
truthy(v) == v.type = "list" /\ Len(v.items) > 0

\* ------------------------------------------------------------ the store

\* load_history(session_id) on directory dir: the exception that reaches
\* the caller ("none" when it returns) and the value returned.
load_history(dir, session_id, io_fail) ==
    IF dir[session_id].kind = "absent"
    THEN [raised |-> "none", value |-> <<>>]
    ELSE LET r == json_load(dir[session_id], io_fail) IN
         IF r.exc \in Caught THEN [raised |-> "none", value |-> <<>>]
         ELSE IF r.exc # "none" THEN [raised |-> r.exc, value |-> <<>>]
         ELSE [raised |-> "none",
               value |-> IF truthy(r) THEN r.items ELSE <<>>]

\* Mutant: the file is opened for appending, the new turns follow the old.
save_history_append(dir, session_id, history) ==
    [dir EXCEPT ![session_id] =
        json_dump(load_history(dir, session_id, FALSE).value \o history)]

\* save_history(session_id, history): the directory afterwards.
save_history(dir, session_id, history) ==
    [dir EXCEPT ![session_id] = json_dump(history)]

\* get_session_ids(): the stems of the *.json files.
get_session_ids(dir) == {id \in DOMAIN dir : dir[id].kind # "absent"}

\* Mutant: the existence test is inverted, so no file is ever unlinked.
delete_sessions_keep(dir, ids) ==
    [id \in DOMAIN dir |->
        IF id \in ids /\ dir[id].kind = "absent" THEN NoFile ELSE dir[id]]

\* Mutant: the loop returns after the first id.
delete_sessions_first(dir, ids) ==
    [id \in DOMAIN dir |->
        IF /\ id \in ids
           /\ \A other \in ids : id = "s1" \/ other # "s1"
           /\ dir[id].kind # "absent"
        THEN NoFile ELSE dir[id]]

\* delete_sessions(session_ids): the directory afterwards.
delete_sessions(dir, ids) ==
    [id \in DOMAIN dir |->
        IF id \in ids /\ dir[id].kind # "absent" THEN NoFile ELSE dir[id]]

\* ------------------------------------------------------------ variables

VARIABLES
    history_dir,          \* HISTORY_DIR: session id -> file content
    messages,             \* st.session_state.messages
    selected_session_id,  \* value of the "Load Chat Session" selectbox
    session_ids,          \* session_ids of the last run (the options shown)
    outcome,              \* how the last script run ended
    ret,                  \* what the last direct store call returned
    last,                 \* the last operation and its inputs
    saved                 \* per id: what the store's calls have done to it

vars == <<history_dir, messages, selected_session_id, session_ids, outcome,
          ret, last, saved>>

Turns == {user(p) : p \in Prompts} \cup {assistant(r) : r \in Responses}

RECURSIVE SeqsUpTo(_, _)
SeqsUpTo(S, n) ==
    IF n = 0 THEN {<<>>}
    ELSE LET shorter == SeqsUpTo(S, n - 1) IN
         shorter \cup {Append(t, x) : t \in {u \in shorter : Len(u) = n - 1},
                                      x \in S}

\* Files found in the directory at start: none, a transcript in the current
\* format, transcripts written in the old query/response format, and
\* damaged files.
CurrentFile == json_dump(<<user("hi"), assistant("hello")>>)
LegacyFile ==
    [kind |-> "list",
     objs |-> << << <<"query", "a">>, <<"response", "b">> >>,
                 << <<"query", "c">> >> >>]
InitialFiles == {NoFile, CurrentFile, LegacyFile,
                 NullFile, MalformedFile, UndecodableFile}

NoRet == [raised |-> "none", value |-> <<>>, ids |-> {}]
\* History of one id: stored (a record is persisted: found at start or saved,
\* and not deleted since), known (it was written by a save since the start,
\* with the sequence turns, replaced telling whether that save overwrote a
\* record), deleted (a delete named it since its last save).
History(stored, known, turns, replaced, deleted) ==
    [stored |-> stored, known |-> known, turns |-> turns,
     replaced |-> replaced, deleted |-> deleted]
\* The last operation: its name, the id (or session name) and the set of
\* ids it was given, whether the read failed, and for a prompt how the
\* chat handler ended.
Op(op, id, ids, io_fail, result) ==
    [op |-> op, id |-> id, ids |-> ids, io_fail |-> io_fail,
     result |-> result]

\* ------------------------------------------- StoreSpec: the store's calls

StoreInit ==
    /\ history_dir \in [SessionIds -> InitialFiles]
    /\ messages = <<>>
    /\ selected_session_id = ""
    /\ session_ids = {}
    /\ outcome = "ok"
    /\ ret = NoRet
    /\ last = Op("init", "", {}, FALSE, "")
    /\ saved = [id \in SessionIds |->
                  History(history_dir[id] # NoFile, FALSE, <<>>, FALSE, FALSE)]

AppUnchanged == UNCHANGED <<messages, selected_session_id, session_ids, outcome>>

Load(id, io_fail) ==
    /\ LET r == load_history(history_dir, id, io_fail) IN
       ret' = [raised |-> r.raised, value |-> r.value, ids |-> {}]
    /\ last' = Op("load", id, {}, io_fail, "")
    /\ UNCHANGED <<history_dir, saved>>
    /\ AppUnchanged

Save(id, T) ==
    /\ history_dir' = save_history(history_dir, id, T)
    /\ ret' = NoRet
    /\ last' = Op("save", id, {}, FALSE, "")
    /\ saved' = [saved EXCEPT ![id] = History(TRUE, TRUE, T, history_dir[id] # NoFile, FALSE)]
    /\ AppUnchanged

Delete(ids) ==
    /\ history_dir' = delete_sessions(history_dir, ids)
    /\ ret' = NoRet
    /\ last' = Op("delete", "", ids, FALSE, "")
    /\ saved' = [id \in SessionIds |->
                   IF id \in ids THEN History(FALSE, FALSE, <<>>, FALSE, TRUE)
                   ELSE saved[id]]
    /\ AppUnchanged

List ==
    /\ ret' = [raised |-> "none", value |-> <<>>,
               ids |-> get_session_ids(history_dir)]
    /\ last' = Op("list", "", {}, FALSE, "")
    /\ UNCHANGED <<history_dir, saved>>
    /\ AppUnchanged

StoreNext ==
    \/ \E id \in SessionIds, io_fail \in BOOLEAN : Load(id, io_fail)
    \/ \E id \in SessionIds, T \in SeqsUpTo(Turns, MaxSaveLen) : Save(id, T)
    \/ \E ids \in SUBSET SessionIds : Delete(ids)
    \/ List

StoreSpec == StoreInit /\ [][StoreNext]_vars

\* ------------------------------------------------- the script, by stage

\* The state a script run works on: the directory, session_state.messages,
\* and the exception that ended the run ("none" while it is running).
Running(dir, msgs) ==
    [dir |-> dir, messages |-> msgs, exc |-> "none", reported |-> FALSE]

\* Lines 80-81, "Delete Selected Sessions" pressed: delete_sessions on the
\* multiselect's value.
delete_button(st, selected_sessions) ==
    [st EXCEPT !.dir = delete_sessions(st.dir, selected_sessions)]

\* Lines 88-94, "Save Current Chat": saves under a non-empty name only.
save_button(st, pressed, current_session_name) ==
    IF pressed /\ current_session_name # ""
    THEN [st EXCEPT !.dir = save_history(st.dir, current_session_name,
                                         st.messages)]
    ELSE st

\* Mutant: the page keeps the id it held, option or not.
selectbox_stale(options, want, rebuilt) == {want}

\* Line 103: the values st.sidebar.selectbox may return for the options
\* [""] + session_ids when the page last held want: want itself while it is
\* still an option, or the first option when the widget is built anew.
selectbox(options, want, rebuilt) ==
    IF want \in options /\ ~rebuilt THEN {want}
    ELSE {""} \cup ({want} \cap options)

\* Line 79: the values of the multiselect, likewise.
multiselect(options, want, rebuilt) ==
    IF want \subseteq options /\ ~rebuilt THEN {want}
    ELSE {{}, want \cap options}

\* Lines 104-105: a selected session replaces session_state.messages; an
\* exception load_history lets through ends the run.
load_selected(st, selected, io_fail) ==
    IF selected = "" THEN st
    ELSE LET r == load_history(st.dir, selected, io_fail) IN
         IF r.raised # "none" THEN [st EXCEPT !.exc = r.raised]
         ELSE [st EXCEPT !.messages = r.value]

\* Lines 108-110: message["role"] and message["content"] of every message.
display(st) ==
    IF st.exc # "none" THEN st
    ELSE IF \E i \in 1..Len(st.messages) :
              ~({"role", "content"} \subseteq DOMAIN st.messages[i])
         THEN [st EXCEPT !.exc = "KeyError"]
         ELSE st

\* A completion: the full response of a stream that ended, or a failure
\* raised before or in the middle of the stream.
Completions ==
    {[ok |-> TRUE, text |-> r] : r \in Responses}
    \cup {[ok |-> FALSE, text |-> ""]}

\* Mutant: every assistant turn is saved at once to one global history.
chat_input_autosave(st, model_name, prompt, completion) ==
    IF st.exc # "none" \/ model_name = "" THEN st
    ELSE LET asked == [st EXCEPT !.messages = Append(@, user(prompt))] IN
         IF completion.ok
         THEN LET told == Append(asked.messages, assistant(completion.text)) IN
              [asked EXCEPT !.messages = told,
                            !.dir = save_history(@, "s1", told)]
         ELSE [asked EXCEPT !.reported = TRUE]

\* Lines 113-130: with a model and a submitted prompt, the user turn is
\* appended, then the assistant turn if the stream ends, else st.error.
chat_input(st, model_name, prompt, completion) ==
    IF st.exc # "none" \/ model_name = "" THEN st
    ELSE LET asked == [st EXCEPT !.messages = Append(@, user(prompt))] IN
         IF completion.ok
         THEN [asked EXCEPT !.messages = Append(@, assistant(completion.text))]
         ELSE [asked EXCEPT !.reported = TRUE]

\* Lines 99-110 of a run in which no prompt is submitted.
page(st, selected, io_fail) == display(load_selected(st, selected, io_fail))

\* How a run ended: by an exception, with st.error shown, without a chat
\* input (line 132), or with the chat input on the page.
run_outcome(st, model_name) ==
    IF st.exc # "none" THEN st.exc
    ELSE IF model_name = "" THEN "no_model"
    ELSE IF st.reported THEN "error_shown"
    ELSE "ok"

\* fetch_models(): the selected model, "" when the list is empty.
ModelNames == {"", "llama3"}

\* ---------------------------------------------- Spec: the page's reruns

\* The state after the first run of a new browser session.
Init ==
    /\ history_dir \in [SessionIds -> InitialFiles]
    /\ messages = <<>>
    /\ selected_session_id = ""
    /\ session_ids = get_session_ids(history_dir)
    /\ outcome \in {"ok", "no_model"}
    /\ ret = NoRet
    /\ last = Op("init", "", {}, FALSE, "")
    /\ saved = [id \in SessionIds |->
                  History(history_dir[id] # NoFile, FALSE, <<>>, FALSE, FALSE)]

\* The end of a run: what it leaves in the directory, in session_state and
\* on the page.
Finish(st, ids, selected, model_name, op) ==
    /\ history_dir' = st.dir
    /\ messages' = st.messages
    /\ session_ids' = ids
    /\ selected_session_id' = selected
    /\ outcome' = run_outcome(st, model_name)
    /\ last' = op
    /\ UNCHANGED <<ret, saved>>

\* The read of line 39 can fail only where there is a file to read.
ReadFailures(dir, selected) ==
    IF selected # "" /\ dir[selected].kind # "absent" THEN BOOLEAN
    ELSE {FALSE}

\* A widget that triggers nothing by itself changed (model, language, the
\* multiselect, the name field): a run with no button pressed.
Rerun ==
    \E model_name \in ModelNames :
      LET ids == get_session_ids(history_dir) IN
      \E selected \in selectbox(ids, selected_session_id, ids # session_ids) :
        \E io_fail \in ReadFailures(history_dir, selected) :
          Finish(page(Running(history_dir, messages), selected, io_fail),
                 ids, selected, model_name,
                 Op("rerun", selected_session_id, {}, io_fail, ""))

\* The user picks another entry of "Load Chat Session".
SelectSession(want) ==
    /\ want \in ({""} \cup session_ids) \ {selected_session_id}
    /\ \E model_name \in ModelNames :
         LET ids == get_session_ids(history_dir) IN
         \E selected \in selectbox(ids, want, ids # session_ids) :
           \E io_fail \in ReadFailures(history_dir, selected) :
             Finish(page(Running(history_dir, messages), selected, io_fail),
                    ids, selected, model_name,
                    Op("select", want, {}, io_fail, ""))

\* "Save Current Chat" is pressed with the name field holding name.
ClickSave(name) ==
    \E model_name \in ModelNames :
      LET ids == get_session_ids(history_dir)
          st == save_button(Running(history_dir, messages), TRUE, name)
      IN
      \E selected \in selectbox(ids, selected_session_id, ids # session_ids) :
        \E io_fail \in ReadFailures(st.dir, selected) :
          Finish(page(st, selected, io_fail), ids, selected, model_name,
                 Op("click_save", name, {}, io_fail, ""))

\* "Delete Selected Sessions" is pressed with want chosen in the
\* multiselect: the sessions are deleted and st.rerun() starts the script
\* again, in which the selectbox is built for the ids that remain.
ClickDelete(want) ==
    /\ session_ids # {}
    /\ want \subseteq session_ids
    /\ LET ids == get_session_ids(history_dir) IN
       /\ ids # {}
       /\ \E selected_sessions \in multiselect(ids, want, ids # session_ids),
             model_name \in ModelNames :
            LET st == delete_button(Running(history_dir, messages),
                                    selected_sessions)
                left == get_session_ids(st.dir)
            IN
            \E selected \in selectbox(left, selected_session_id, TRUE) :
              \E io_fail \in ReadFailures(st.dir, selected) :
                Finish(page(st, selected, io_fail), left, selected,
                       model_name,
                       Op("click_delete", selected_session_id,
                          selected_sessions, io_fail, ""))

\* A prompt is submitted in the chat input, which the last run showed.
SubmitPrompt(prompt, completion) ==
    /\ outcome \in {"ok", "error_shown"}
    /\ \E model_name \in ModelNames :
         LET ids == get_session_ids(history_dir) IN
         \E selected \in selectbox(ids, selected_session_id,
                                   ids # session_ids) :
           \E io_fail \in ReadFailures(history_dir, selected) :
             LET shown == page(Running(history_dir, messages), selected,
                               io_fail)
                 st == chat_input(shown, model_name, prompt, completion)
             IN
             /\ Len(shown.messages) + 2 <= MaxTurns
             /\ Finish(st, ids, selected, model_name,
                       Op("prompt", selected_session_id, {}, io_fail,
                          IF shown.exc # "none" \/ model_name = ""
                            THEN "not_run"
                          ELSE IF completion.ok THEN "appended"
                          ELSE "failed"))

Next ==
    \/ Rerun
    \/ \E want \in {""} \cup SessionIds : SelectSession(want)
    \/ \E name \in {""} \cup SessionIds : ClickSave(name)
    \/ \E want \in SUBSET SessionIds : ClickDelete(want)
    \/ \E prompt \in Prompts, completion \in Completions :
         SubmitPrompt(prompt, completion)

Spec == Init /\ [][Next]_vars

\* ------------------------------------------------ claims on the store

Empty == [raised |-> "none", value |-> <<>>]

\* C1: once save(id, T) has run, load(id) returns exactly T, whatever was
\* stored under id before and whatever is done to other ids, until the next
\* save or delete of id (reads that the operating system lets through).
C1_LoadReturnsLastSave ==
    /\ \A id \in SessionIds :
         saved[id].known =>
           load_history(history_dir, id, FALSE)
             = [raised |-> "none", value |-> saved[id].turns]
    /\ (last.op = "load" /\ ~last.io_fail /\ saved[last.id].known) =>
         (ret.raised = "none" /\ ret.value = saved[last.id].turns)

\* A load has just returned the two turns that a save wrote over an existing
\* record, after a save or delete of the other id.
C1_Witness ==
    /\ last.op = "load" /\ ~last.io_fail
    /\ saved[last.id].known /\ saved[last.id].replaced
    /\ ret.value = <<assistant("hello"), user("hi")>>
    /\ \E other \in SessionIds \ {last.id} :
         saved[other].known \/ saved[other].deleted

\* C5: load(id) returns the empty sequence whenever no record is persisted
\* for id: never saved, or deleted since its last save; right after
\* delete(S) this holds of every id in S.
C5_LoadOfMissingIsEmpty ==
    /\ \A id \in SessionIds, io_fail \in BOOLEAN :
         (~saved[id].stored) => load_history(history_dir, id, io_fail) = Empty
    /\ (last.op = "load" /\ ~saved[last.id].stored) =>
         (ret.raised = "none" /\ ret.value = <<>>)
    /\ last.op = "delete" =>
         \A id \in last.ids : load_history(history_dir, id, FALSE) = Empty

\* A load of an id whose record a delete removed has returned.
C5_Witness ==
    /\ last.op = "load"
    /\ saved[last.id].deleted
    /\ ret.value = <<>>

\* C6: list_sessions() is exactly the set of ids saved and not deleted
\* since; a save or delete of one id adds or removes no other id.
C6_ListIsSavedNotDeleted ==
    /\ get_session_ids(history_dir) = {id \in SessionIds : saved[id].stored}
    /\ last.op = "list" => ret.ids = {id \in SessionIds : saved[id].stored}

\* A listing taken after a save of one id and a delete of the other.
C6_Witness ==
    /\ last.op = "list"
    /\ \E id \in SessionIds : ret.ids = {id} /\ saved[id].known
    /\ \E id \in SessionIds : saved[id].deleted

\* The legacy form: the first element of the stored list carries "query".
IsLegacy(file) ==
    /\ file.kind = "list"
    /\ Len(file.objs) > 0
    /\ \E i \in 1..Len(file.objs[1]) : file.objs[1][i][1] = "query"

\* The current form: every element carries role and content.
IsCurrent(file) ==
    /\ file.kind = "list"
    /\ \A i \in 1..Len(file.objs) :
         {file.objs[i][j][1] : j \in 1..Len(file.objs[i])} = {"role", "content"}

\* The migration the specification prescribes: per legacy record, in order,
\* a user turn if it has query, then an assistant turn if it has response.
RECURSIVE MigratedTurns(_)
MigratedTurns(records) ==
    IF records = <<>> THEN <<>>
    ELSE LET rec == Head(records) IN
         (IF "query" \in DOMAIN rec THEN <<user(rec["query"])>> ELSE <<>>)
         \o (IF "response" \in DOMAIN rec
               THEN <<assistant(rec["response"])>> ELSE <<>>)
         \o MigratedTurns(Tail(records))

LegacyLoad ==
    /\ last'.op = "load"
    /\ ~last'.io_fail
    /\ IsLegacy(history_dir[last'.id])

\* C2: load(id) of a record in legacy form returns the migrated sequence.
C2_LegacyLoadReturnsMigrated ==
    [][LegacyLoad =>
        /\ ret'.raised = "none"
        /\ ret'.value =
             MigratedTurns(json_load(history_dir[last'.id], FALSE).items)]_vars

\* C3: after load(id) of a record in legacy form, the record persisted
\* under id is in the current format and equals what load returned.
C3_LegacyRewrittenOnLoad ==
    [][LegacyLoad =>
        /\ ~IsLegacy(history_dir'[last'.id])
        /\ IsCurrent(history_dir'[last'.id])
        /\ history_dir'[last'.id] = json_dump(ret'.value)]_vars

\* C4: load(id) of an unreadable or corrupt file (malformed data,
\* undecodable bytes, a failed read) returns the empty sequence, raises
\* nothing and leaves the file as it was.
C4_CorruptLoadIsEmpty ==
    [][(/\ last'.op = "load"
        /\ \/ history_dir[last'.id].kind \in {"malformed", "undecodable"}
           \/ (last'.io_fail /\ history_dir[last'.id].kind # "absent"))
       =>
        /\ ret'.raised = "none"
        /\ ret'.value = <<>>
        /\ history_dir' = history_dir]_vars

\* -------------------------------------------------- claims on the page

\* messages' keeps every turn of messages, in place.
KeepsEarlierTurns ==
    /\ Len(messages') >= Len(messages)
    /\ SubSeq(messages', 1, Len(messages)) = messages

\* C7: when the completion fails during a prompt, the error is reported,
\* no assistant turn is added for the prompt and every turn present before
\* the prompt is unchanged (in a run whose reads succeed).
C7_FailedPromptKeepsTranscript ==
    [][(last'.op = "prompt" /\ last'.result = "failed" /\ ~last'.io_fail) =>
        /\ outcome' = "error_shown"
        /\ KeepsEarlierTurns
        /\ \A i \in (Len(messages) + 1)..Len(messages') :
             messages'[i]["role"] # "assistant"]_vars

\* C8: a prompt, answered or failed, leaves the directory as it was; the
\* directory changes only in a run that saves under a non-empty name or
\* deletes.
C8_OnlySaveAndDeleteWrite ==
    [][/\ last'.op = "prompt" => history_dir' = history_dir
       /\ history_dir' # history_dir =>
            \/ (last'.op = "click_save" /\ last'.id # "")
            \/ (last'.op = "click_delete" /\ last'.ids # {})]_vars

\* A prompt was answered while a stored session was selected, and the
\* transcript in memory is not what that session's file holds.
C8_Witness ==
    /\ last.op = "prompt" /\ last.result = "appended"
    /\ selected_session_id # ""
    /\ history_dir[selected_session_id] # NoFile
    /\ history_dir[selected_session_id] # json_dump(messages)

\* C9: deleting a set of ids that contains the selected session removes its
\* file and leaves the transcript in memory as it was, through the rerun
\* that follows; no session is selected afterwards, and while none is, a
\* run without a prompt leaves the transcript unchanged.
C9_DeleteKeepsTranscript ==
    [][/\ (/\ last'.op = "click_delete"
           /\ selected_session_id # ""
           /\ selected_session_id \in last'.ids)
          =>
           /\ history_dir'[selected_session_id] = NoFile
           /\ messages' = messages
           /\ selected_session_id' = ""
       /\ (/\ last'.op \in {"rerun", "click_save", "click_delete"}
           /\ selected_session_id' = "")
          => messages' = messages]_vars

\* The selected session, loaded with a transcript, has just been deleted.
C9_Witness ==
    /\ last.op = "click_delete"
    /\ last.id # "" /\ last.id \in last.ids
    /\ history_dir[last.id] = NoFile
    /\ Len(messages) >= 2

\* C10: every answered prompt extends the transcript at its end by exactly
\* [user(prompt), assistant(response)] and keeps every earlier turn, also
\* while a loaded session stays selected (in a run whose reads succeed).
C10_AnsweredPromptAppendsTwo ==
    [][(last'.op = "prompt" /\ last'.result = "appended" /\ ~last'.io_fail) =>
        \E prompt \in Prompts, response \in Responses :
          messages' = messages \o <<user(prompt), assistant(response)>>]_vars

====
